---- MODULE Spec2Model ----
(***************************************************************************)
(* Result ledger of BiomedCoOp: log_results.py (metric extraction, the     *)
(* few-shot ledger and the base2new ledger), the aggregation of            *)
(* aggregate_kaggle_results.py and kaggle_eval_pipeline.py, and the        *)
(* HH:MM:SS rendering of train.py and analyze_training_times.py.           *)
(*                                                                         *)
(* Numbers are fixed-point thousandths: the float 80.0 is 80000, the text  *)
(* "68.57" is 68570, 1.234 seconds is 1234.  Python values are records     *)
(* [tag, n, s]: tag "float"/"int" for in-memory numbers, "numstr" for a    *)
(* string that spells the number n, "str" for any other string s, "none"   *)
(* for None.  Every value read back from a CSV file is a string.           *)
(***************************************************************************)
EXTENDS Integers, Sequences, FiniteSets, TLC

VARIABLES b2n,      \* base2new_<model>.csv: [exists, rows]
          fs,       \* few_shot_<model>.csv: [exists, header, rows]
          clock,    \* wall clock read by datetime.now(), one tick per call
          calls,    \* number of calls made so far
          last,     \* the most recent call: its arguments and its outcome
          evalSum,  \* per logical key, the eval_time arguments ingested so far
          log,      \* the log file handed to main or to the extractors
          pc,       \* position of the extraction run
          plOut,    \* result of parse_log_file on log
          psOut,    \* accuracies appended by parse_single_result for log
          wr,       \* the rewrite of base2new_<model>.csv in progress
          alt,      \* the two phases of one key, ingested in both arrival orders
          agg,      \* an evaluation tree and the tables aggregated from it
          dur       \* a training duration and its HH:MM:SS renderings

vars == <<b2n, fs, clock, calls, last, evalSum, log, pc, plOut, psOut, wr, alt, agg, dur>>

\* the state of the writer, of the arrival-order run, of the aggregation and
\* of the duration rendering
others == <<wr, alt, agg, dur>>

----------------------------------------------------------------------------
(* Bounds *)
MaxCalls == 2
MaxLogLen == 3
NumDatasets == 2
MaxDirs == 2
MaxSeconds == 61

----------------------------------------------------------------------------
(* Python values *)
PyFloat(x) == [tag |-> "float", n |-> x, s |-> ""]
PyInt(k) == [tag |-> "int", n |-> k, s |-> ""]
PyStr(t) == [tag |-> "str", n |-> 0, s |-> t]
NumStr(x) == [tag |-> "numstr", n |-> x, s |-> ""]
PyNone == [tag |-> "none", n |-> 0, s |-> ""]

NA == PyStr("N/A")
Empty == PyStr("")

\* bool(v): 0 and 0.0 are false, a string is false only when it is empty
Truthy(v) ==
    CASE v.tag = "float" -> v.n # 0
      [] v.tag = "int" -> v.n # 0
      [] v.tag = "numstr" -> TRUE
      [] v.tag = "str" -> v.s # ""
      [] v.tag = "none" -> FALSE

\* float(v) raises ValueError on a string that spells no number
FloatOk(v) == v.tag \in {"float", "int", "numstr"}
FloatOf(v) == v.n

\* f"{x:.2f}": thousandths rounded to hundredths, as text.  The inputs of the
\* model never end in 5 thousandths, where the binary value of the float
\* decides the direction.
Round2(x) ==
    LET q == x \div 10
        r == x % 10
    IN  IF r > 5 \/ (r = 5 /\ q % 2 = 1) THEN 10 * (q + 1) ELSE 10 * q

Format2f(x) == NumStr(Round2(x))

\* the ".2f" format code raises ValueError on a str
Format2fOk(v) == v.tag \in {"float", "int"}

\* str(v), which is also how csv.DictWriter renders a cell; None becomes ''
StrOf(v) ==
    CASE v.tag \in {"float", "int"} -> NumStr(v.n)
      [] v.tag = "none" -> Empty
      [] OTHER -> v

\* a or b
PyOr(a, b) == IF Truthy(a) THEN a ELSE b

\* metrics.get(name, default)
MetricsGet(metrics, name, default) ==
    IF name \in DOMAIN metrics THEN metrics[name] ELSE default

----------------------------------------------------------------------------
(* Log text.  A line is what the two scanners can see of it: whether the   *)
(* stripped line is exactly "=> result" ("exact"), merely contains that    *)
(* text ("inside") or does not contain it ("none"), and for each metric    *)
(* name the number of the first "* <name>: <number>%" occurrence in it.    *)
MetricNames == {"accuracy", "precision", "recall", "f1_score", "balanced_accuracy"}
OptionalMetrics == <<"precision", "recall", "f1_score", "balanced_accuracy">>

NoMetrics == [name \in {} |-> PyNone]

Line(marker, m) == [marker |-> marker, m |-> m]
OneMetric(name, x) == [k \in {name} |-> x]

LineKinds ==
    { Line("none", [k \in {} |-> 0]),
      Line("exact", [k \in {} |-> 0]),
      Line("inside", [k \in {} |-> 0]),
      Line("inside", OneMetric("accuracy", 60000)),
      Line("none", OneMetric("accuracy", 0)),
      Line("none", OneMetric("accuracy", 60000)),
      Line("none", OneMetric("accuracy", 80000)),
      Line("none", OneMetric("precision", 50000)) }

LineSeqs(len) == UNION { [1..k -> LineKinds] : k \in 0..len }

NoFile == [exists |-> FALSE, lines |-> <<>>]
File(lines) == [exists |-> TRUE, lines |-> lines]

AllLogs == {NoFile} \cup { File(ls) : ls \in LineSeqs(MaxLogLen) }

\* metrics[name] = value
SetItem(metrics, name, value) ==
    [k \in DOMAIN metrics \cup {name} |-> IF k = name THEN value ELSE metrics[k]]

\* the loop over the four optional metric names for one line
RECURSIVE OtherMetrics(_, _, _)
OtherMetrics(line, metrics, i) ==
    IF i > Len(OptionalMetrics) THEN metrics
    ELSE LET name == OptionalMetrics[i]
         IN  OtherMetrics(line,
                          IF name \in DOMAIN line.m
                          THEN SetItem(metrics, name, PyFloat(line.m[name]))
                          ELSE metrics,
                          i + 1)

\* parse_log_file, the loop over the lines from line i on
RECURSIVE ParseLines(_, _, _, _)
ParseLines(lines, i, found_result, metrics) ==
    IF i > Len(lines) THEN metrics
    ELSE LET line == lines[i]
         IN  IF line.marker # "none"
             THEN ParseLines(lines, i + 1, TRUE, metrics)
             ELSE IF found_result
             THEN LET withAcc == IF "accuracy" \in DOMAIN line.m
                                 THEN SetItem(metrics, "accuracy", PyFloat(line.m["accuracy"]))
                                 ELSE metrics
                  IN  ParseLines(lines, i + 1, found_result, OtherMetrics(line, withAcc, 1))
             ELSE ParseLines(lines, i + 1, found_result, metrics)

\* a parse that is armed from the first line on
parse_log_file_armed(file) ==
    IF ~file.exists THEN NoMetrics ELSE ParseLines(file.lines, 1, TRUE, NoMetrics)

parse_log_file(file) ==
    IF ~file.exists THEN NoMetrics ELSE ParseLines(file.lines, 1, FALSE, NoMetrics)

\* parse_single_result, the scan of one seed's log.txt: what it appends to
\* accuracies
RECURSIVE ScanLines(_, _, _)
ScanLines(lines, i, good_to_go) ==
    IF i > Len(lines) THEN <<>>
    ELSE LET line == lines[i]
             armed == good_to_go \/ line.marker = "exact"
         IN  IF armed /\ "accuracy" \in DOMAIN line.m
             THEN <<line.m["accuracy"]>>
             ELSE ScanLines(lines, i + 1, armed)

parse_single_result(file) ==
    IF ~file.exists THEN <<>> ELSE ScanLines(file.lines, 1, FALSE)

----------------------------------------------------------------------------
(* Call arguments (argparse namespace) *)
Models == {"BiomedCoOp_BiomedCLIP"}
Identities == { <<"btmri", 1, 1>>, <<"btmri", 1, 2>>, <<"busi", 1, 1>> }
EvalTimes == {PyNone, PyFloat(1234)}
Provenance == { <<PyNone, Empty>>, <<PyStr("model.pth.tar-50"), PyStr("rerun")>> }

Args(model, id, eval_time, prov, subtask) ==
    [model |-> PyStr(model), dataset |-> PyStr(id[1]), shot |-> PyInt(id[2]),
     seed |-> PyInt(id[3]), eval_time |-> eval_time, checkpoint |-> prov[1],
     notes |-> prov[2], subtask |-> subtask]

Base2NewArgs ==
    { Args(m, id, t, p, st) : m \in Models, id \in Identities, t \in EvalTimes,
                              p \in Provenance, st \in {"base", "new"} }

\* metric mappings handed to the ledger functions directly
Accuracy(x) == [k \in {"accuracy"} |-> PyFloat(x)]
DirectMetrics == {NoMetrics, Accuracy(0), Accuracy(60000), Accuracy(80000)}

\* the logical key of a call and of a stored row
KeyOf(args) == <<args.model.s, args.dataset.s, args.shot.n, args.seed.n>>
RowKey(row) == <<row.model.s, row.dataset.s, row.shot.n, row.seed.n>>
Keys == { <<m, id[1], id[2], id[3]>> : m \in Models, id \in Identities }

----------------------------------------------------------------------------
(* The base2new ledger *)
Base2NewFields ==
    <<"model", "checkpoint_name", "dataset", "shot", "seed", "base_acc",
      "new_acc", "harmonic_mean", "eval_time", "timestamp", "notes">>

\* csv.DictWriter.writerows over dict rows, read back by csv.DictReader:
\* every cell becomes its string
CsvRow(row) == [f \in DOMAIN row |-> StrOf(row[f])]
CsvRows(rows) == [i \in 1..Len(rows) |-> CsvRow(rows[i])]

\* datetime.now().strftime(...)
Timestamp(now) == NumStr(now)

\* the scan with the shot and seed compared as numbers against the stored text
MatchesUnconverted(row, args) ==
    /\ row.dataset = args.dataset
    /\ row.shot = args.shot
    /\ row.seed = args.seed
    /\ row.model = args.model

\* the scan for a row of this configuration: index of the first match, or 0
Matches(row, args) ==
    /\ row.dataset = args.dataset
    /\ row.shot = StrOf(args.shot)
    /\ row.seed = StrOf(args.seed)
    /\ row.model = args.model

MatchIndex(rows, args) ==
    IF \E i \in 1..Len(rows) : Matches(rows[i], args)
    THEN CHOOSE i \in 1..Len(rows) :
             /\ Matches(rows[i], args)
             /\ \A j \in 1..(i - 1) : ~Matches(rows[j], args)
    ELSE 0

\* floor(a * b / c) and whether the division is exact, in steps that stay
\* within 32-bit integers for operands up to 200.000
MulDiv(a, b, c) ==
    LET hi == a * (b \div 1000)
        lo == (hi % c) * 1000 + a * (b % 1000)
    IN  [q |-> (hi \div c) * 1000 + lo \div c, exact |-> lo % c = 0]

\* 2 * base * new / (base + new) if (base + new) > 0 else 0, then "{:.2f}"
HMean(base, new) ==
    IF base + new > 0
    THEN LET h == MulDiv(2 * base, new, base + new)
         IN  IF h.exact THEN Format2f(h.q)
             ELSE NumStr(IF h.q % 10 >= 5 THEN 10 * (h.q \div 10 + 1) ELSE 10 * (h.q \div 10))
    ELSE Format2f(0)

\* "Calculate harmonic mean if both are available"
WithHarmonicMean(row) ==
    IF Truthy(row.base_acc) /\ Truthy(row.new_acc)
    THEN IF FloatOk(row.base_acc) /\ FloatOk(row.new_acc)
         THEN [row EXCEPT !.harmonic_mean = HMean(FloatOf(row.base_acc), FloatOf(row.new_acc))]
         ELSE [row EXCEPT !.harmonic_mean = NA]
    ELSE row

\* an update that writes the ingested accuracy into both accuracy fields
UpdatedBothAccuracies(row, args, metrics) ==
    [row EXCEPT !.base_acc = MetricsGet(metrics, "accuracy", NA),
                !.new_acc = MetricsGet(metrics, "accuracy", NA)]

\* "Update existing row", up to the eval_time step
UpdatedAccuracy(row, args, metrics) ==
    IF args.subtask = "base"
    THEN [row EXCEPT !.base_acc = MetricsGet(metrics, "accuracy", NA)]
    ELSE [row EXCEPT !.new_acc = MetricsGet(metrics, "accuracy", NA)]

\* float(matching_row.get('eval_time', 0)) raises on 'N/A'
EvalTimeRaises(row, args) == Truthy(args.eval_time) /\ ~FloatOk(row.eval_time)

WithEvalTime(row, args) ==
    IF Truthy(args.eval_time)
    THEN [row EXCEPT !.eval_time = Format2f(FloatOf(row.eval_time) + args.eval_time.n)]
    ELSE row

UpdateRow(row, args, metrics, now) ==
    [WithEvalTime(WithHarmonicMean(UpdatedAccuracy(row, args, metrics)), args)
        EXCEPT !.timestamp = Timestamp(now)]

\* "Create new row"
NewRow(args, metrics, now) ==
    [model |-> args.model,
     checkpoint_name |-> PyOr(args.checkpoint, NA),
     dataset |-> args.dataset,
     shot |-> args.shot,
     seed |-> args.seed,
     base_acc |-> IF args.subtask = "base" THEN MetricsGet(metrics, "accuracy", NA) ELSE Empty,
     new_acc |-> IF args.subtask = "new" THEN MetricsGet(metrics, "accuracy", NA) ELSE Empty,
     harmonic_mean |-> Empty,
     eval_time |-> IF Truthy(args.eval_time) THEN Format2f(args.eval_time.n) ELSE NA,
     timestamp |-> Timestamp(now),
     notes |-> PyOr(args.notes, Empty)]

\* the closing print formats the accuracy with ".2f"
PrintRaises(metrics) == ~Format2fOk(MetricsGet(metrics, "accuracy", NA))

\* log_base2new_result: the file it leaves and how it returns
log_base2new_result(file, args, metrics, now) ==
    LET existing_rows == IF file.exists THEN file.rows ELSE <<>>
        i == MatchIndex(existing_rows, args)
    IN  IF i # 0 /\ EvalTimeRaises(existing_rows[i], args)
        THEN [file |-> file, raised |-> "ValueError", wrote |-> FALSE, matched |-> TRUE]
        ELSE LET rows == IF i # 0
                         THEN [existing_rows EXCEPT ![i] = UpdateRow(@, args, metrics, now)]
                         ELSE Append(existing_rows, NewRow(args, metrics, now))
             IN  [file |-> [exists |-> TRUE, rows |-> CsvRows(rows)],
                  raised |-> IF PrintRaises(metrics) THEN "ValueError" ELSE "none",
                  wrote |-> TRUE,
                  matched |-> i # 0]

----------------------------------------------------------------------------
(* The few-shot ledger.  The file is a header line and data lines; a cell  *)
(* of a data line remembers the field name its writer wrote it for.        *)
FewShotFields ==
    <<"model", "checkpoint_name", "dataset", "shot", "seed", "accuracy",
      "eval_time", "timestamp", "notes">>

FewShotArgs ==
    { Args(m, id, t, p, "none") : m \in Models, id \in Identities, t \in EvalTimes,
                                  p \in Provenance }

FewShotMetrics ==
    { NoMetrics,
      Accuracy(80000),
      SetItem(Accuracy(80000), "precision", PyFloat(50000)),
      SetItem(Accuracy(60000), "recall", PyFloat(40000)),
      SetItem(SetItem(Accuracy(60000), "precision", PyFloat(50000)), "recall", PyFloat(40000)) }

Contains(seq, x) == \E i \in 1..Len(seq) : seq[i] = x

\* list.insert(-2, x): before the last two elements
InsertBeforeLastTwo(seq, x) ==
    SubSeq(seq, 1, Len(seq) - 2) \o <<x>> \o SubSeq(seq, Len(seq) - 1, Len(seq))

\* "Add optional metric columns if they exist"
RECURSIVE FieldNames(_, _, _)
FieldNames(fieldnames, metrics, i) ==
    IF i > Len(OptionalMetrics) THEN fieldnames
    ELSE LET metric == OptionalMetrics[i]
         IN  FieldNames(IF metric \in DOMAIN metrics /\ ~Contains(fieldnames, metric)
                        THEN InsertBeforeLastTwo(fieldnames, metric)
                        ELSE fieldnames,
                        metrics, i + 1)

\* the row dict of log_few_shot_result
FewShotRow(args, metrics, now) ==
    LET base == [model |-> args.model,
                 checkpoint_name |-> PyOr(args.checkpoint, NA),
                 dataset |-> args.dataset,
                 shot |-> args.shot,
                 seed |-> args.seed,
                 accuracy |-> MetricsGet(metrics, "accuracy", NA),
                 eval_time |-> IF Truthy(args.eval_time) THEN Format2f(args.eval_time.n) ELSE NA,
                 timestamp |-> Timestamp(now),
                 notes |-> PyOr(args.notes, Empty)]
        optional == { OptionalMetrics[i] : i \in 1..Len(OptionalMetrics) } \cap DOMAIN metrics
    IN  [k \in DOMAIN base \cup optional |-> IF k \in optional THEN metrics[k] ELSE base[k]]

\* csv.DictWriter.writerow: one cell per fieldname, '' for a missing key
CsvLine(fieldnames, row) ==
    [i \in 1..Len(fieldnames) |->
        [col |-> fieldnames[i],
         v |-> IF fieldnames[i] \in DOMAIN row THEN StrOf(row[fieldnames[i]]) ELSE Empty]]

\* the cells that identify a run in a data line of the few-shot file
FewShotKey(line) == <<line[1].v, line[3].v, line[4].v, line[5].v>>

\* a log_few_shot_result that replaces the line of the same run, if any
log_few_shot_result_merged(file, args, metrics, now) ==
    LET fieldnames == FieldNames(FewShotFields, metrics, 1)
        line == CsvLine(fieldnames, FewShotRow(args, metrics, now))
        same == { i \in 1..Len(file.rows) : FewShotKey(file.rows[i]) = FewShotKey(line) }
    IN  [file |-> [exists |-> TRUE,
                   header |-> IF file.exists THEN file.header ELSE fieldnames,
                   rows |-> IF same = {} THEN Append(file.rows, line)
                            ELSE [i \in 1..Len(file.rows) |->
                                     IF i \in same THEN line ELSE file.rows[i]]],
         raised |-> IF PrintRaises(metrics) THEN "ValueError" ELSE "none",
         wrote |-> TRUE,
         matched |-> FALSE]

\* log_few_shot_result: the file it leaves and how it returns
log_few_shot_result(file, args, metrics, now) ==
    LET fieldnames == FieldNames(FewShotFields, metrics, 1)
    IN  [file |-> [exists |-> TRUE,
                   header |-> IF file.exists THEN file.header ELSE fieldnames,
                   rows |-> Append(file.rows, CsvLine(fieldnames, FewShotRow(args, metrics, now)))],
         raised |-> IF PrintRaises(metrics) THEN "ValueError" ELSE "none",
         wrote |-> TRUE,
         matched |-> FALSE]

\* csv.DictReader over the few-shot file: the value a reader gets for column
\* col of data line r; a line shorter than the header reads as None there
ReadCell(file, r, col) ==
    LET line == file.rows[r]
        idx == { i \in 1..Len(file.header) : file.header[i] = col }
    IN  IF idx = {} THEN PyNone
        ELSE LET i == CHOOSE j \in idx : \A k \in idx : k <= j
             IN  IF i <= Len(line) THEN line[i].v ELSE PyNone

----------------------------------------------------------------------------
(* main: parse the log, fall back to 'N/A', dispatch on the task *)
MainLogs ==
    { NoFile,
      File(<<Line("none", [k \in {} |-> 0])>>),
      File(<<Line("exact", [k \in {} |-> 0]), Line("none", OneMetric("accuracy", 80000))>>),
      File(<<Line("exact", [k \in {} |-> 0]), Line("none", OneMetric("precision", 50000))>>) }

MainMetrics(logfile) ==
    LET metrics == parse_log_file(logfile)
    IN  IF DOMAIN metrics = {} THEN [k \in {"accuracy"} |-> NA] ELSE metrics

\* a warning is printed for a missing file and for an empty metrics mapping
MainWarns(logfile) == ~logfile.exists \/ DOMAIN parse_log_file(logfile) = {}

----------------------------------------------------------------------------
(* State machine *)
NoCall ==
    [op |-> "none", via |-> "none", args |-> Args("", <<"", 0, 0>>, PyNone, <<PyNone, Empty>>, "none"),
     metrics |-> NoMetrics, warned |-> FALSE, raised |-> "none", wrote |-> FALSE,
     matched |-> FALSE]

Call(op, via, args, metrics, warned, res) ==
    [op |-> op, via |-> via, args |-> args, metrics |-> metrics, warned |-> warned,
     raised |-> res.raised, wrote |-> res.wrote, matched |-> res.matched]

NoLedgerFile == [exists |-> FALSE, rows |-> <<>>]
NoFewShotFile == [exists |-> FALSE, header |-> <<>>, rows |-> <<>>]

\* a ledger file holding the header line and no rows
EmptyLedgerFile == [exists |-> TRUE, rows |-> <<>>]

LedgerInit ==
    /\ b2n \in {NoLedgerFile, EmptyLedgerFile}
    /\ fs = NoFewShotFile
    /\ clock = 1
    /\ calls = 0
    /\ last = NoCall
    /\ evalSum = [k \in Keys |-> 0]

ExtractIdle ==
    /\ log = NoFile
    /\ pc = "idle"
    /\ plOut = NoMetrics
    /\ psOut = <<>>

\* no rewrite in progress
WriterIdle ==
    [phase |-> "idle", header |-> FALSE, pre |-> NoLedgerFile, post |-> NoLedgerFile]

NoArrivals == [phase |-> "idle", calls |-> <<>>, baseFirst |-> NoLedgerFile, newFirst |-> NoLedgerFile]
NoAggregation == [phase |-> "idle"]
NoDuration == [phase |-> "idle"]

OthersIdle ==
    /\ wr = WriterIdle
    /\ alt = NoArrivals
    /\ agg = NoAggregation
    /\ dur = NoDuration

Init == LedgerInit /\ ExtractIdle /\ OthersIdle

\* the eval_time arguments handed to ingests of each key
Ingested(args) ==
    [evalSum EXCEPT ![KeyOf(args)] = @ + IF Truthy(args.eval_time) THEN args.eval_time.n ELSE 0]

DoBase2New(via, args, metrics, warned) ==
    LET res == log_base2new_result(b2n, args, metrics, clock)
    IN  /\ b2n' = res.file
        /\ last' = Call("base2new", via, args, metrics, warned, res)
        /\ evalSum' = Ingested(args)
        /\ clock' = clock + 1
        /\ calls' = calls + 1
        /\ UNCHANGED <<fs, pc, plOut, psOut>>
        /\ UNCHANGED others

DoFewShot(via, args, metrics, warned) ==
    LET res == log_few_shot_result(fs, args, metrics, clock)
    IN  /\ fs' = res.file
        /\ last' = Call("few_shot", via, args, metrics, warned, res)
        /\ clock' = clock + 1
        /\ calls' = calls + 1
        /\ UNCHANGED <<b2n, evalSum, pc, plOut, psOut>>
        /\ UNCHANGED others

\* log_base2new_result(args, metrics) called directly
Base2NewCall ==
    /\ calls < MaxCalls
    /\ \E args \in Base2NewArgs, metrics \in DirectMetrics :
           DoBase2New("direct", args, metrics, FALSE) /\ UNCHANGED log

\* python log_results.py --task base2new ...
MainBase2New ==
    /\ calls < MaxCalls
    /\ \E args \in Base2NewArgs, logfile \in MainLogs :
           DoBase2New("main", args, MainMetrics(logfile), MainWarns(logfile)) /\ log' = logfile

\* log_few_shot_result(args, metrics) called directly
FewShotCall ==
    /\ calls < MaxCalls
    /\ \E args \in FewShotArgs, metrics \in FewShotMetrics :
           DoFewShot("direct", args, metrics, FALSE) /\ UNCHANGED log

\* python log_results.py --task few_shot ...
MainFewShot ==
    /\ calls < MaxCalls
    /\ \E args \in FewShotArgs, logfile \in MainLogs :
           DoFewShot("main", args, MainMetrics(logfile), MainWarns(logfile)) /\ log' = logfile

\* the base2new ledger under any sequence of log_base2new_result calls
Next == Base2NewCall

Spec == Init /\ [][Next]_vars

\* the few-shot ledger under any sequence of log_few_shot_result calls
NextFewShotDirect == FewShotCall

SpecFewShotDirect == Init /\ [][NextFewShotDirect]_vars

NextFewShot == FewShotCall \/ MainFewShot

SpecFewShot == Init /\ [][NextFewShot]_vars

\* the two ingest tasks of main
NextMain == MainBase2New \/ MainFewShot

SpecMain == Init /\ [][NextMain]_vars

----------------------------------------------------------------------------
(* Extraction runs: one log, parse_log_file, then the per-seed scan *)
ExtractInit ==
    /\ b2n = NoLedgerFile
    /\ fs = NoFewShotFile
    /\ clock = 1
    /\ calls = 0
    /\ last = NoCall
    /\ evalSum = [k \in Keys |-> 0]
    /\ log \in AllLogs
    /\ pc = "read"
    /\ plOut = NoMetrics
    /\ psOut = <<>>
    /\ OthersIdle

ParseLogFile ==
    /\ pc = "read"
    /\ plOut' = parse_log_file(log)
    /\ pc' = "parsed"
    /\ UNCHANGED <<b2n, fs, clock, calls, last, evalSum, log, psOut>>
    /\ UNCHANGED others

ParseSingleResult ==
    /\ pc = "parsed"
    /\ psOut' = parse_single_result(log)
    /\ pc' = "scanned"
    /\ UNCHANGED <<b2n, fs, clock, calls, last, evalSum, log, plOut>>
    /\ UNCHANGED others

NextExtract == ParseLogFile \/ ParseSingleResult

SpecExtract == ExtractInit /\ [][NextExtract]_vars

----------------------------------------------------------------------------
(* Properties of the base2new ledger (Spec) *)

Rows == b2n.rows
IsNumber(v) == v.tag = "numstr"
IsSet(v) == v # Empty
LastKey == KeyOf(last.args)

\* C1: the table holds at most one row per (model, dataset, shot, seed); an
\* ingest whose key matches an existing row never adds a second row for it.
C1_OneRowPerKey ==
    /\ \A i, j \in 1..Len(Rows) : RowKey(Rows[i]) = RowKey(Rows[j]) => i = j
    /\ last.op = "base2new" /\ last.matched => Len(Rows) < calls

\* C1 witness: a second ingest for an existing key has been written and
\* the table still has the single row of that key.
C1_Witness ==
    /\ last.op = "base2new" /\ last.matched /\ last.wrote
    /\ calls = 2
    /\ Len(Rows) = 1
    /\ RowKey(Rows[1]) = LastKey

\* C2: for every row whose base_acc and new_acc are both numeric,
\* harmonic_mean is 2*base*new/(base+new) of the row's current accuracies
\* (0 when base+new = 0), in the 2-decimal rendering.
C2_HarmonicMeanOfCurrent ==
    \A i \in 1..Len(Rows) :
        IsNumber(Rows[i].base_acc) /\ IsNumber(Rows[i].new_acc)
            => Rows[i].harmonic_mean = HMean(Rows[i].base_acc.n, Rows[i].new_acc.n)

\* C3: a row's harmonic_mean is set if and only if both base_acc and
\* new_acc are set; a row created by the first ingest of a key has only the
\* ingested subtask's accuracy set.
C3_HarmonicMeanIffBoth ==
    /\ \A i \in 1..Len(Rows) :
           IsSet(Rows[i].harmonic_mean) <=> (IsSet(Rows[i].base_acc) /\ IsSet(Rows[i].new_acc))
    /\ last.op = "base2new" /\ last.wrote /\ ~last.matched =>
           LET row == Rows[Len(Rows)]
           IN  /\ row.harmonic_mean = Empty
               /\ IF last.args.subtask = "base"
                  THEN IsSet(row.base_acc) /\ row.new_acc = Empty
                  ELSE IsSet(row.new_acc) /\ row.base_acc = Empty

\* C4: for every key some ingest supplied an eval_time for, the row's
\* eval_time is the sum of the eval_time arguments of all ingests of that key
\* (2-decimal rendering).
C4_EvalTimeIsSum ==
    \A i \in 1..Len(Rows) :
        evalSum[RowKey(Rows[i])] > 0
            => Rows[i].eval_time = Format2f(evalSum[RowKey(Rows[i])])

\* C5: an ingest removes no row, rewrites every row of another key
\* unchanged, appends exactly one row when no row matches, and on the matching
\* row leaves the opposite subtask's accuracy, the identity fields,
\* checkpoint_name and notes as they were.
SameOutsideIngest(old, new, subtask) ==
    /\ new.model = old.model
    /\ new.dataset = old.dataset
    /\ new.shot = old.shot
    /\ new.seed = old.seed
    /\ new.checkpoint_name = old.checkpoint_name
    /\ new.notes = old.notes
    /\ subtask = "base" => new.new_acc = old.new_acc
    /\ subtask = "new" => new.base_acc = old.base_acc

IngestFrame ==
    LET key == KeyOf(last'.args)
        hit == { i \in 1..Len(Rows) : RowKey(Rows[i]) = key }
    IN  /\ Len(Rows') = Len(Rows) + (IF hit = {} THEN 1 ELSE 0)
        /\ \A i \in 1..Len(Rows) :
               IF i \in hit
               THEN SameOutsideIngest(Rows[i], Rows'[i], last'.args.subtask)
               ELSE Rows'[i] = Rows[i]
        /\ hit = {} => RowKey(Rows'[Len(Rows')]) = key

C5_IngestFrame == [][IngestFrame]_vars

\* C5 witness: an ingest has updated the row of its key while a row of
\* another key sits in the table, or has updated a row whose checkpoint_name
\* and notes differ from the ones the call carried.
C5_Witness ==
    /\ last.op = "base2new" /\ last.matched /\ last.wrote
    /\ \E i \in 1..Len(Rows) :
           /\ RowKey(Rows[i]) = LastKey
           /\ \/ Len(Rows) > 1
              \/ /\ Rows[i].checkpoint_name # PyOr(last.args.checkpoint, NA)
                 /\ Rows[i].notes # last.args.notes

----------------------------------------------------------------------------
(* Properties of main and of the few-shot ledger (SpecMain, SpecFewShot) *)

\* the accuracy the last call left in its ledger row
RecordedAccuracy ==
    IF last.op = "few_shot"
    THEN ReadCell(fs, Len(fs.rows), "accuracy")
    ELSE LET hit == { i \in 1..Len(Rows) : RowKey(Rows[i]) = LastKey }
         IN  IF hit = {} THEN PyNone
             ELSE LET row == Rows[CHOOSE i \in hit : TRUE]
                  IN  IF last.args.subtask = "base" THEN row.base_acc ELSE row.new_acc

\* C6: an ingest through main whose log is missing or yields no metrics
\* warns, records the accuracy as 'N/A', writes the ledger and returns
\* normally (it does not raise).
C6_UnavailableLogDoesNotRaise ==
    last.via = "main" /\ DOMAIN parse_log_file(log) = {} =>
        /\ last.warned
        /\ last.wrote
        /\ RecordedAccuracy = NA
        /\ last.raised = "none"

\* C7: log_few_shot_result called with an empty metrics mapping appends
\* a row whose accuracy is 'N/A' and completes without raising.
C7_EmptyMetricsDoesNotRaise ==
    last.op = "few_shot" /\ last.via = "direct" /\ DOMAIN last.metrics = {} =>
        /\ last.wrote
        /\ RecordedAccuracy = NA
        /\ last.raised = "none"

\* C10: after any sequence of few-shot ingests the header names the
\* column of every cell of every row, each cell sits under the column it was
\* written for, and a column a row was written without reads as absent.
C10_TableConsistent ==
    \A r \in 1..Len(fs.rows) :
        LET line == fs.rows[r]
            written == { line[i].col : i \in 1..Len(line) }
        IN  /\ \A i \in 1..Len(line) : i <= Len(fs.header) /\ fs.header[i] = line[i].col
            /\ \A i \in 1..Len(fs.header) :
                   fs.header[i] \notin written => ReadCell(fs, r, fs.header[i]) \in {PyNone, Empty}

----------------------------------------------------------------------------
(* Properties of the extractors (SpecExtract) *)

\* index of the first line that is exactly the marker, 0 when there is none
FirstMarker(lines) ==
    IF \E i \in 1..Len(lines) : lines[i].marker = "exact"
    THEN CHOOSE i \in 1..Len(lines) :
             /\ lines[i].marker = "exact"
             /\ \A j \in 1..(i - 1) : lines[j].marker # "exact"
    ELSE 0

HasAccuracy(line) == "accuracy" \in DOMAIN line.m
IsAccuracyLine(line) == line.marker = "none" /\ HasAccuracy(line)

\* positions of the "* accuracy: X%" lines after the marker line
AccuracyLinesAfterMarker(lines) ==
    IF FirstMarker(lines) = 0 THEN {}
    ELSE { j \in (FirstMarker(lines) + 1)..Len(lines) : IsAccuracyLine(lines[j]) }

\* the numbers of all accuracy occurrences after the marker line
AccuracyValuesAfterMarker(lines) ==
    IF FirstMarker(lines) = 0 THEN {}
    ELSE { lines[j].m["accuracy"] : j \in { k \in (FirstMarker(lines) + 1)..Len(lines) : HasAccuracy(lines[k]) } }

Min(S) == CHOOSE x \in S : \A y \in S : x <= y

PlainLog == log.exists /\ \A i \in 1..Len(log.lines) : log.lines[i].marker # "inside"

\* C8: for a log with more than one accuracy line after the marker,
\* parse_log_file and the per-seed scan of parse_single_result both return the
\* value of the first such line.
C8_FirstAccuracyOnly ==
    PlainLog /\ Cardinality(AccuracyLinesAfterMarker(log.lines)) > 1 =>
        LET first == log.lines[Min(AccuracyLinesAfterMarker(log.lines))].m["accuracy"]
        IN  /\ pc \in {"parsed", "scanned"} =>
                   "accuracy" \in DOMAIN plOut /\ plOut["accuracy"] = PyFloat(first)
            /\ pc = "scanned" => psOut = <<first>>

\* C9: for a log with the marker line followed by a line
\* "* accuracy: X%", both extractors return an accuracy, and it is the X of an
\* accuracy occurrence after the marker; for a log that does not contain the
\* marker text at all, both return nothing.
C9_MarkerThenAccuracy ==
    /\ log.exists /\ AccuracyLinesAfterMarker(log.lines) # {} =>
           /\ pc \in {"parsed", "scanned"} =>
                  /\ "accuracy" \in DOMAIN plOut
                  /\ plOut["accuracy"].tag = "float"
                  /\ plOut["accuracy"].n \in AccuracyValuesAfterMarker(log.lines)
           /\ pc = "scanned" =>
                  /\ Len(psOut) = 1
                  /\ psOut[1] \in AccuracyValuesAfterMarker(log.lines)
    /\ log.exists /\ (\A i \in 1..Len(log.lines) : log.lines[i].marker = "none") =>
           /\ plOut = NoMetrics
           /\ psOut = <<>>

\* C9 witness: both extractors have run on a log whose marker line is
\* followed by exactly one accuracy occurrence, and both returned its value.
C9_Witness ==
    /\ pc = "scanned"
    /\ log.exists
    /\ AccuracyLinesAfterMarker(log.lines) # {}
    /\ \E x \in {0, 60000, 80000} :
           /\ AccuracyValuesAfterMarker(log.lines) = {x}
           /\ plOut["accuracy"] = PyFloat(x)
           /\ psOut = <<x>>

----------------------------------------------------------------------------
(* The rewrite of the base2new file, step by step: log_base2new_result     *)
(* reads the rows and builds the new table in memory, open(csv_file, 'w')  *)
(* truncates the file, writeheader and writerows put the lines back and    *)
(* leaving the with block closes it.  The write can fail at any step       *)
(* (disk full, I/O error), which ends the call.                            *)

\* lines 131-187: the table to write is ready; a ValueError before the write
\* ends the call with the file untouched
WriteBegin ==
    /\ wr.phase = "idle"
    /\ calls < MaxCalls
    /\ \E args \in Base2NewArgs, metrics \in DirectMetrics :
           LET res == log_base2new_result(b2n, args, metrics, clock)
           IN  /\ wr' = IF res.wrote
                        THEN [phase |-> "ready", header |-> b2n.exists, pre |-> b2n, post |-> res.file]
                        ELSE WriterIdle
               /\ last' = Call("base2new", "direct", args, metrics, FALSE, res)
               /\ evalSum' = Ingested(args)
               /\ clock' = clock + 1
               /\ calls' = calls + 1
    /\ UNCHANGED <<b2n, fs, log, pc, plOut, psOut, alt, agg, dur>>

\* line 190: open(csv_file, 'w') creates the file or truncates it to nothing
WriteOpen ==
    /\ wr.phase = "ready"
    /\ b2n' = [exists |-> TRUE, rows |-> <<>>]
    /\ wr' = [wr EXCEPT !.phase = "open", !.header = FALSE]
    /\ UNCHANGED <<fs, clock, calls, last, evalSum, log, pc, plOut, psOut, alt, agg, dur>>

\* line 192: writer.writeheader()
WriteHeader ==
    /\ wr.phase = "open"
    /\ wr' = [wr EXCEPT !.phase = "rows", !.header = TRUE]
    /\ UNCHANGED <<b2n, fs, clock, calls, last, evalSum, log, pc, plOut, psOut, alt, agg, dur>>

\* line 193: writer.writerows(existing_rows), one row reaching the file
WriteRow ==
    /\ wr.phase = "rows"
    /\ Len(b2n.rows) < Len(wr.post.rows)
    /\ b2n' = [b2n EXCEPT !.rows = Append(@, wr.post.rows[Len(b2n.rows) + 1])]
    /\ UNCHANGED <<fs, clock, calls, last, evalSum, log, pc, plOut, psOut, wr, alt, agg, dur>>

\* the end of the with block: the file is closed, the call goes on to print
WriteClose ==
    /\ wr.phase = "rows"
    /\ Len(b2n.rows) = Len(wr.post.rows)
    /\ wr' = WriterIdle
    /\ UNCHANGED <<b2n, fs, clock, calls, last, evalSum, log, pc, plOut, psOut, alt, agg, dur>>

\* an OSError raised by the open file's write: the call ends, the file stays
\* as the steps so far left it
WriteFail ==
    /\ wr.phase \in {"open", "rows"}
    /\ wr' = [wr EXCEPT !.phase = "failed"]
    /\ last' = [last EXCEPT !.raised = "OSError"]
    /\ UNCHANGED <<b2n, fs, clock, calls, evalSum, log, pc, plOut, psOut, alt, agg, dur>>

NextWrite == WriteBegin \/ WriteOpen \/ WriteHeader \/ WriteRow \/ WriteClose \/ WriteFail

SpecWrite == Init /\ [][NextWrite]_vars

\* what a reader of the backing file finds: the header line and the rows
DiskTable(file, header) == [exists |-> file.exists, header |-> header, rows |-> file.rows]
CompleteTable(file) == DiskTable(file, file.exists)

\* C11: at every point of a rewrite, and after a failure in the middle
\* of it, the backing file holds either the complete table from before the
\* ingest or the complete table the ingest produces.
C11_RewriteAllOrNothing ==
    wr.phase # "idle" =>
        DiskTable(b2n, wr.header) \in {CompleteTable(wr.pre), CompleteTable(wr.post)}

\* the data line a log_few_shot_result call for args must have appended
IsLineOf(line, args, metrics) ==
    /\ FewShotKey(line) = <<StrOf(args.model), StrOf(args.dataset), StrOf(args.shot), StrOf(args.seed)>>
    /\ line[6].col = "accuracy"
    /\ line[6].v = StrOf(MetricsGet(metrics, "accuracy", NA))

FewShotAppend ==
    calls' = calls + 1 =>
        /\ fs'.exists
        /\ fs'.header # <<>>
        /\ fs.exists => fs'.header = fs.header
        /\ Len(fs'.rows) = calls'
        /\ SubSeq(fs'.rows, 1, Len(fs.rows)) = fs.rows
        /\ IsLineOf(fs'.rows[Len(fs'.rows)], last'.args, last'.metrics)

\* C12: every log_few_shot_result call appends exactly one data line for
\* the call's run after the lines already there and leaves those lines and the
\* header line as they were, so that after n calls on an absent file the file
\* is one header line and n data lines in call order, the same run or not.
C12_AppendOnly == [][FewShotAppend]_vars

\* two calls for the same model, dataset, shot and seed left two lines
C12_Witness ==
    /\ calls = 2
    /\ Len(fs.rows) = 2
    /\ FewShotKey(fs.rows[1]) = FewShotKey(fs.rows[2])
    /\ fs.rows[1] # fs.rows[2]

----------------------------------------------------------------------------
(* Aggregation over the evaluation tree: aggregate_kaggle_results.main and *)
(* the aggregation at the end of kaggle_eval_pipeline.main.  The tree maps *)
(* (dataset, shot) to the evaluation directory found there; a pair outside *)
(* its domain has no directory.  Only the first NumDatasets datasets have  *)
(* been evaluated, and at most MaxDirs directories exist.                  *)
datasets ==
    <<"btmri", "busi", "chmnist", "covid", "ctkidney", "dermamnist", "kneexray",
      "kvasir", "lungcolon", "octmnist", "retina">>

shots_list == <<1, 2, 4, 8, 16>>

\* a seed's log.txt of a finished evaluation, and one of a run that died
SeedLog(x) ==
    File(<<Line("exact", [k \in {} |-> 0]), Line("none", OneMetric("accuracy", x))>>)
UnfinishedLog == File(<<Line("none", OneMetric("accuracy", 80000))>>)

\* an evaluation directory: the seeds' logs, and what
\* extract_accuracy_from_output finds in the output of the parse command
EvalDirs ==
    { [seeds |-> <<UnfinishedLog>>, output |-> PyNone],
      [seeds |-> <<SeedLog(80000)>>, output |-> PyFloat(80000)],
      [seeds |-> <<SeedLog(80000), SeedLog(60000)>>, output |-> PyFloat(70000)] }

Cells == { <<datasets[i], shots_list[j]>> : i \in 1..NumDatasets, j \in 1..Len(shots_list) }

Trees == UNION { [S -> EvalDirs] : S \in { T \in SUBSET Cells : Cardinality(T) <= MaxDirs } }

RECURSIVE Sum(_)
Sum(seq) == IF seq = <<>> THEN 0 ELSE seq[1] + Sum(Tail(seq))

\* np.mean, to the thousandth
np_mean(seq) == Sum(seq) \div Len(seq)

RECURSIVE SqrtBetween(_, _, _)
SqrtBetween(x, lo, hi) ==
    IF lo = hi THEN lo
    ELSE LET mid == (lo + hi + 1) \div 2
         IN  IF mid * mid <= x THEN SqrtBetween(x, mid, hi) ELSE SqrtBetween(x, lo, mid - 1)

\* the integer part of the square root
ISqrt(x) == SqrtBetween(x, 0, 46340)

\* n times the sum of the squared deviations from the mean, in hundredths
SquaredDeviations(seq) ==
    LET h == [i \in 1..Len(seq) |-> seq[i] \div 10]
    IN  Len(h) * Sum([i \in 1..Len(h) |-> h[i] * h[i]]) - Sum(h) * Sum(h)

\* the variance with divisor n - ddof, in hundredths squared
Variance(seq, ddof) == SquaredDeviations(seq) \div (Len(seq) * (Len(seq) - ddof))

NaN == [tag |-> "float", n |-> 0, s |-> "nan"]

\* np.std: ddof = 0
np_std(seq) == PyFloat(10 * ISqrt(Variance(seq, 0)))

\* pandas Series.std: ddof = 1, NaN for a single value
pd_std(seq) == IF Len(seq) = 1 THEN NaN ELSE PyFloat(10 * ISqrt(Variance(seq, 1)))

\* 1.96 * np.std(res) / np.sqrt(len(res))
compute_ci95(res) ==
    PyFloat(10 * ISqrt(MulDiv(Variance(res, 0), 38416, 10000 * Len(res)).q))

\* parse_single_result, the loop over the seeds of a directory
RECURSIVE Accuracies(_, _)
Accuracies(seeds, i) ==
    IF i > Len(seeds) THEN <<>>
    ELSE parse_single_result(seeds[i]) \o Accuracies(seeds, i + 1)

\* parse_single_result, its return value
ParseDirectory(dir) ==
    LET accuracies == Accuracies(dir.seeds, 1)
    IN  IF accuracies = <<>> THEN [mean |-> PyNone, std |-> PyNone]
        ELSE [mean |-> PyFloat(np_mean(accuracies)), std |-> np_std(accuracies)]

\* the pipeline's parse of a directory: acc, std of extract_accuracy_from_output
ParseOutput(dir) == [mean |-> dir.output, std |-> dir.output]

AggregateScript == "aggregate_kaggle_results"
PipelineScript == "kaggle_eval_pipeline"

\* the loop over datasets and shots that fills detailed_results, from the
\* c-th (dataset, shot) pair on
RECURSIVE DetailedResults(_, _, _)
DetailedResults(script, tree, c) ==
    IF c > Len(datasets) * Len(shots_list) THEN <<>>
    ELSE LET dataset == datasets[(c - 1) \div Len(shots_list) + 1]
             k == shots_list[((c - 1) % Len(shots_list)) + 1]
             rest == DetailedResults(script, tree, c + 1)
         IN  IF <<dataset, k>> \notin DOMAIN tree THEN rest
             ELSE LET res == IF script = AggregateScript
                             THEN ParseDirectory(tree[<<dataset, k>>])
                             ELSE ParseOutput(tree[<<dataset, k>>])
                  IN  IF res.mean = PyNone THEN rest
                      ELSE <<[dataset |-> dataset, shots |-> k,
                              accuracy |-> res.mean.n]>> \o rest

RECURSIVE Select(_, _, _)
Select(detailed_results, k, i) ==
    IF i > Len(detailed_results) THEN <<>>
    ELSE (IF detailed_results[i].shots = k THEN <<detailed_results[i].accuracy>> ELSE <<>>)
         \o Select(detailed_results, k, i + 1)

\* one value per dataset that has any result, 0 where it has none at k
results_by_shots_zero_filled(detailed_results, k) ==
    LET present == { detailed_results[i].dataset : i \in 1..Len(detailed_results) }
        F[n \in 0..Len(datasets)] ==
            IF n = 0 THEN <<>>
            ELSE F[n - 1] \o
                 (IF datasets[n] \notin present THEN <<>>
                  ELSE LET at == { i \in 1..Len(detailed_results) :
                                       /\ detailed_results[i].dataset = datasets[n]
                                       /\ detailed_results[i].shots = k }
                       IN  IF at = {} THEN <<0>>
                           ELSE <<detailed_results[CHOOSE i \in at : TRUE].accuracy>>)
    IN  F[Len(datasets)]

\* results_by_shots[k]: the means appended for k, in dataset order
results_by_shots(detailed_results, k) == Select(detailed_results, k, 1)

\* summary_by_shots.csv of aggregate_kaggle_results
RECURSIVE SummaryRows(_, _)
SummaryRows(detailed_results, j) ==
    IF j > Len(shots_list) THEN <<>>
    ELSE LET accs == results_by_shots(detailed_results, shots_list[j])
         IN  (IF accs = <<>> THEN <<>>
              ELSE <<[shots |-> shots_list[j],
                      avg_accuracy |-> Format2f(np_mean(accs)),
                      std_across_datasets |-> Format2f(np_std(accs).n),
                      num_datasets |-> Len(accs)]>>)
             \o SummaryRows(detailed_results, j + 1)

\* DataFrame.to_csv of a float cell: NaN is written as nothing
ToCsv(v) == IF v = NaN THEN Empty ELSE StrOf(v)

\* summary_by_shots.csv of the pipeline
RECURSIVE PipelineSummaryRows(_, _)
PipelineSummaryRows(detailed_results, j) ==
    IF j > Len(shots_list) THEN <<>>
    ELSE LET shot_data == Select(detailed_results, shots_list[j], 1)
         IN  (IF Len(shot_data) > 0
              THEN <<[shots |-> shots_list[j],
                      avg_accuracy |-> ToCsv(PyFloat(np_mean(shot_data))),
                      std_across_datasets |-> ToCsv(pd_std(shot_data)),
                      num_datasets |-> Len(shot_data)]>>
              ELSE <<>>)
             \o PipelineSummaryRows(detailed_results, j + 1)

\* pivot_data[dataset][k] of a detailed result, None if there is none
PivotValue(detailed_results, dataset, k) ==
    LET at == { i \in 1..Len(detailed_results) :
                    detailed_results[i].dataset = dataset /\ detailed_results[i].shots = k }
    IN  IF at = {} THEN PyNone ELSE PyFloat(detailed_results[CHOOSE i \in at : TRUE].accuracy)

InPivot(detailed_results, dataset) ==
    \E i \in 1..Len(detailed_results) : detailed_results[i].dataset = dataset

\* the data rows of a pivot table over the given columns, datasets in list
\* order; blank is what a cell without a result holds
RECURSIVE PivotRows(_, _, _, _)
PivotRows(detailed_results, columns, blank, n) ==
    IF n > Len(datasets) THEN <<>>
    ELSE (IF InPivot(detailed_results, datasets[n])
          THEN <<[dataset |-> datasets[n],
                  cells |-> [j \in 1..Len(columns) |->
                                LET v == PivotValue(detailed_results, datasets[n], columns[j])
                                IN  IF v = PyNone THEN blank ELSE v]]>>
          ELSE <<>>)
         \o PivotRows(detailed_results, columns, blank, n + 1)

\* pivot_table.csv of aggregate_kaggle_results: the header over shots_list,
\* the data rows and the AVERAGE row, every number through "{:.2f}"
AggregatePivot(detailed_results) ==
    LET rows == PivotRows(detailed_results, shots_list, NA, 1)
    IN  [header |-> shots_list,
         rows |-> [r \in 1..Len(rows) |->
                      [dataset |-> rows[r].dataset,
                       cells |-> [j \in 1..Len(shots_list) |->
                                     IF rows[r].cells[j] = NA THEN NA
                                     ELSE Format2f(rows[r].cells[j].n)]]],
         average |-> [j \in 1..Len(shots_list) |->
                         LET accs == results_by_shots(detailed_results, shots_list[j])
                         IN  IF accs # <<>> THEN Format2f(np_mean(accs)) ELSE NA]]

\* the columns of DataFrame.pivot(columns='shots'): the shot values that occur
RECURSIVE PivotColumns(_, _)
PivotColumns(detailed_results, j) ==
    IF j > Len(shots_list) THEN <<>>
    ELSE (IF Select(detailed_results, shots_list[j], 1) # <<>> THEN <<shots_list[j]>> ELSE <<>>)
         \o PivotColumns(detailed_results, j + 1)

\* pivot_table.csv of the pipeline: DataFrame.pivot (index and columns sorted,
\* which for DATASETS and SHOTS is the listed order), the row of column means
\* that skip NaN, and to_csv
PipelinePivot(detailed_results) ==
    LET columns == PivotColumns(detailed_results, 1)
        rows == PivotRows(detailed_results, columns, NaN, 1)
    IN  [header |-> columns,
         rows |-> [r \in 1..Len(rows) |->
                      [dataset |-> rows[r].dataset,
                       cells |-> [j \in 1..Len(columns) |-> ToCsv(rows[r].cells[j])]]],
         average |-> [j \in 1..Len(columns) |->
                         ToCsv(PyFloat(np_mean(Select(detailed_results, columns[j], 1))))]]

NoPivot == [header |-> <<>>, rows |-> <<>>, average |-> <<>>]

\* aggregate_kaggle_results.main: the three tables it writes
aggregate_main(tree) ==
    LET detailed_results == DetailedResults(AggregateScript, tree, 1)
    IN  [raised |-> "none",
         detailed |-> detailed_results,
         summary |-> SummaryRows(detailed_results, 1),
         pivot |-> AggregatePivot(detailed_results)]

\* kaggle_eval_pipeline.main from "SAVING DETAILED RESULTS" on; an empty
\* DataFrame has no 'shots' column
pipeline_main(tree) ==
    LET detailed_results == DetailedResults(PipelineScript, tree, 1)
    IN  IF detailed_results = <<>>
        THEN [raised |-> "KeyError", detailed |-> <<>>, summary |-> <<>>, pivot |-> NoPivot]
        ELSE [raised |-> "none",
              detailed |-> detailed_results,
              summary |-> PipelineSummaryRows(detailed_results, 1),
              pivot |-> PipelinePivot(detailed_results)]

Aggregation(phase, tree, out, ci95) ==
    [phase |-> phase, tree |-> tree, raised |-> out.raised, detailed |-> out.detailed,
     summary |-> out.summary, pivot |-> out.pivot, ci95 |-> ci95]

NothingWritten == [raised |-> "none", detailed |-> <<>>, summary |-> <<>>, pivot |-> NoPivot]

AggregateInit ==
    /\ b2n = NoLedgerFile
    /\ fs = NoFewShotFile
    /\ clock = 1
    /\ calls = 0
    /\ last = NoCall
    /\ evalSum = [k \in Keys |-> 0]
    /\ log = NoFile
    /\ pc = "idle"
    /\ plOut = NoMetrics
    /\ psOut = <<>>
    /\ wr = WriterIdle
    /\ alt = NoArrivals
    /\ agg \in { Aggregation("tree", tree, NothingWritten, <<>>) : tree \in Trees }
    /\ dur = NoDuration

\* python aggregate_kaggle_results.py
AggregateMain ==
    /\ agg.phase = "tree"
    /\ agg' = Aggregation(AggregateScript, agg.tree, aggregate_main(agg.tree), <<>>)
    /\ UNCHANGED <<b2n, fs, clock, calls, last, evalSum, log, pc, plOut, psOut, wr, alt, dur>>

\* the aggregation of kaggle_eval_pipeline.main
PipelineMain ==
    /\ agg.phase = "tree"
    /\ agg' = Aggregation(PipelineScript, agg.tree, pipeline_main(agg.tree), <<>>)
    /\ UNCHANGED <<b2n, fs, clock, calls, last, evalSum, log, pc, plOut, psOut, wr, alt, dur>>

\* compute_ci95 applied to the means of each shot value that has any
ComputeCI95 ==
    /\ agg.phase = AggregateScript
    /\ agg.ci95 = <<>>
    /\ agg' = [agg EXCEPT !.ci95 =
                  [j \in 1..Len(shots_list) |->
                      LET accs == results_by_shots(agg.detailed, shots_list[j])
                      IN  IF accs = <<>> THEN PyNone ELSE compute_ci95(accs)]]
    /\ UNCHANGED <<b2n, fs, clock, calls, last, evalSum, log, pc, plOut, psOut, wr, alt, dur>>

NextAggregate == AggregateMain \/ PipelineMain \/ ComputeCI95

SpecAggregate == AggregateInit /\ [][NextAggregate]_vars

----------------------------------------------------------------------------
(* Claims about the aggregated tables *)

DatasetNames == { datasets[i] : i \in 1..Len(datasets) }

\* a seed log holds the marker line and an accuracy line after it
SeedMeasured(file) == file.exists /\ AccuracyLinesAfterMarker(file.lines) # {}

\* the directory has a measured result as the script at hand sees it
Measured(script, dir) ==
    IF script = AggregateScript
    THEN \E i \in 1..Len(dir.seeds) : SeedMeasured(dir.seeds[i])
    ELSE dir.output # PyNone

RECURSIVE SetSum(_)
SetSum(f) ==
    IF DOMAIN f = {} THEN 0
    ELSE LET x == CHOOSE y \in DOMAIN f : TRUE
         IN  f[x] + SetSum([y \in DOMAIN f \ {x} |-> f[y]])

\* the mean accuracy of a measured directory
DirMean(script, dir) ==
    IF script = AggregateScript
    THEN LET S == { i \in 1..Len(dir.seeds) : SeedMeasured(dir.seeds[i]) }
         IN  SetSum([i \in S |->
                        dir.seeds[i].lines[Min(AccuracyLinesAfterMarker(dir.seeds[i].lines))].m["accuracy"]])
             \div Cardinality(S)
    ELSE dir.output.n

\* the datasets with a measured result at k
Contributing(script, tree, k) ==
    { d \in DatasetNames : <<d, k>> \in DOMAIN tree /\ Measured(script, tree[<<d, k>>]) }

MeanAcross(script, tree, k) ==
    SetSum([d \in Contributing(script, tree, k) |-> DirMean(script, tree[<<d, k>>])])
    \div Cardinality(Contributing(script, tree, k))

\* C13: in summary_by_shots.csv of aggregate_kaggle_results, a shot value
\* with no dataset measured at it has no row, and any other shot value has
\* exactly one row whose num_datasets is the number of datasets measured at it
\* and whose avg_accuracy is the mean of those datasets' means; a missing
\* directory or one whose logs yield no accuracy counts for nothing.
C13_SummaryOverMeasured ==
    agg.phase = AggregateScript =>
        \A j \in 1..Len(shots_list) :
            LET k == shots_list[j]
                C == Contributing(AggregateScript, agg.tree, k)
                rows == { i \in 1..Len(agg.summary) : agg.summary[i].shots = k }
            IN  IF C = {} THEN rows = {}
                ELSE /\ Cardinality(rows) = 1
                     /\ \A i \in rows :
                            /\ agg.summary[i].num_datasets = Cardinality(C)
                            /\ agg.summary[i].avg_accuracy
                                   = Format2f(MeanAcross(AggregateScript, agg.tree, k))

\* 1-shot: btmri measured over two seeds, busi's directory without an
\* accuracy; no directory at the other shot values
C13_Witness ==
    /\ agg.phase = AggregateScript
    /\ Contributing(AggregateScript, agg.tree, 1) = {"btmri"}
    /\ <<"busi", 1>> \in DOMAIN agg.tree
    /\ Len(agg.summary) = 1
    /\ agg.summary[1].shots = 1
    /\ agg.summary[1].num_datasets = 1
    /\ agg.summary[1].avg_accuracy = NumStr(70000)

\* the datasets with a result at any shot value, in the configured order
RECURSIVE DatasetsWithResult(_, _, _)
DatasetsWithResult(script, tree, n) ==
    IF n > Len(datasets) THEN <<>>
    ELSE (IF \E j \in 1..Len(shots_list) : datasets[n] \in Contributing(script, tree, shots_list[j])
          THEN <<datasets[n]>> ELSE <<>>)
         \o DatasetsWithResult(script, tree, n + 1)

Aggregated == agg.phase \in {AggregateScript, PipelineScript} /\ agg.raised = "none"

\* C14: the pivot table written by either script has one column per
\* configured shot value, in the configured order, whatever data exist; its
\* data rows are the datasets with at least one result, in the configured
\* order; a cell without a result holds 'N/A'.
C14_PivotShape ==
    Aggregated =>
        /\ agg.pivot.header = shots_list
        /\ [r \in 1..Len(agg.pivot.rows) |-> agg.pivot.rows[r].dataset]
               = DatasetsWithResult(agg.phase, agg.tree, 1)
        /\ \A r \in 1..Len(agg.pivot.rows), j \in 1..Len(agg.pivot.header) :
               agg.pivot.rows[r].dataset \notin Contributing(agg.phase, agg.tree, agg.pivot.header[j])
                   => agg.pivot.rows[r].cells[j] = NA

\* C15: in the pivot table written by either script, the AVERAGE row
\* holds, for every configured shot value, the mean of the datasets that have
\* a value in that column, and 'N/A' when none has; a cell without a value
\* holds 'N/A'.
C15_AverageRow ==
    Aggregated =>
        \A j \in 1..Len(shots_list) :
            /\ j \in DOMAIN agg.pivot.header
            /\ agg.pivot.header[j] = shots_list[j]
            /\ IF Contributing(agg.phase, agg.tree, shots_list[j]) = {}
               THEN agg.pivot.average[j] = NA
               ELSE /\ agg.pivot.average[j].tag = "numstr"
                    /\ Round2(agg.pivot.average[j].n)
                           = Round2(MeanAcross(agg.phase, agg.tree, shots_list[j]))
            /\ \A r \in 1..Len(agg.pivot.rows) :
                   agg.pivot.rows[r].dataset \notin Contributing(agg.phase, agg.tree, shots_list[j])
                       => agg.pivot.rows[r].cells[j] = NA

\* the population standard deviation (divisor n) of the means, to the hundredth
PopulationStd(accs) == 10 * ISqrt(SquaredDeviations(accs) \div (Len(accs) * Len(accs)))

\* C16: in the summary written by either script, std_across_datasets is
\* the population standard deviation of the contributing means, for one
\* contributing dataset as for more, and the 95% interval of compute_ci95 is
\* 1.96 times that deviation over the square root of their number.
C16_PopulationStd ==
    Aggregated =>
        /\ \A i \in 1..Len(agg.summary) :
               LET accs == Select(agg.detailed, agg.summary[i].shots, 1)
               IN  /\ agg.summary[i].std_across_datasets.tag = "numstr"
                   /\ Round2(agg.summary[i].std_across_datasets.n) = Round2(PopulationStd(accs))
        /\ \A j \in DOMAIN agg.ci95 :
               LET accs == Select(agg.detailed, shots_list[j], 1)
               IN  accs # <<>> =>
                       (agg.ci95[j].n \div 10) * ISqrt(Len(accs) * 1000000)
                           - 196 * PopulationStd(accs) \in -4000..4000

----------------------------------------------------------------------------
\* the rows of the key of the call being made that hold no eval_time
WithoutEvalTime ==
    { i \in 1..Len(Rows) : RowKey(Rows[i]) = KeyOf(last'.args) /\ Rows[i].eval_time = NA }

EvalTimeFromNothing ==
    calls' = calls + 1 /\ Truthy(last'.args.eval_time) /\ WithoutEvalTime # {} =>
        /\ last'.wrote
        /\ \A i \in WithoutEvalTime :
               Rows'[i].eval_time = Format2f(0 + last'.args.eval_time.n)

\* C17: an ingest that supplies an eval_time for a key whose row was
\* created without one counts the missing value as 0: the ingest writes the
\* table and the row's eval_time is the supplied value.
C17_MissingEvalTimeIsZero == [][EvalTimeFromNothing]_vars

\* the lines from the first line that is exactly the marker on
ArmedLines(lines) ==
    IF FirstMarker(lines) = 0 THEN {} ELSE FirstMarker(lines)..Len(lines)

\* C18: both extractors take metrics only from lines at or after the
\* first line that is exactly '=> result'; a metric line before it, or after a
\* line that merely contains the marker text, is not extracted.
C18_ArmedByExactMarkerOnly ==
    log.exists =>
        /\ pc \in {"parsed", "scanned"} =>
               \A name \in DOMAIN plOut :
                   \E j \in ArmedLines(log.lines) :
                       /\ name \in DOMAIN log.lines[j].m
                       /\ plOut[name] = PyFloat(log.lines[j].m[name])
        /\ pc = "scanned" =>
               \A i \in 1..Len(psOut) :
                   \E j \in ArmedLines(log.lines) :
                       /\ HasAccuracy(log.lines[j])
                       /\ psOut[i] = log.lines[j].m["accuracy"]

----------------------------------------------------------------------------
(* Durations as HH:MM:SS: seconds_to_hms of analyze_training_times.py and  *)
(* the formatting in save_training_results of train.py.  A duration is a   *)
(* non-negative float of seconds, in thousandths; a rendering is the digit *)
(* strings of the three units, which the f-string joins with ':'.          *)

\* x // d and x % d on non-negative floats, int(x)
FloorDiv(x, d) == (x \div (d * 1000)) * 1000
Mod(x, d) == x % (d * 1000)
IntOf(x) == x \div 1000

RECURSIVE Digits(_)
Digits(n) == IF n < 10 THEN <<n>> ELSE Append(Digits(n \div 10), n % 10)

\* f"{n:02d}"
Format02d(n) == IF n < 10 THEN <<0>> \o Digits(n) ELSE Digits(n)

Hms(hours, minutes, seconds) ==
    [hh |-> Format02d(hours), mm |-> Format02d(minutes), ss |-> Format02d(seconds)]

\* a rendering that rounds the seconds to the nearest whole second
seconds_to_hms_rounded(seconds) ==
    Hms(IntOf(FloorDiv(seconds, 3600)),
        IntOf(FloorDiv(Mod(seconds, 3600), 60)),
        IntOf(Mod(seconds, 60) + 500))

seconds_to_hms(seconds) ==
    LET hours == IntOf(FloorDiv(seconds, 3600))
        minutes == IntOf(FloorDiv(Mod(seconds, 3600), 60))
        secs == IntOf(Mod(seconds, 60))
    IN  Hms(hours, minutes, secs)

\* formatted_duration of save_training_results
formatted_duration(training_duration) ==
    LET hours == IntOf(FloorDiv(training_duration, 3600))
        minutes == IntOf(FloorDiv(Mod(training_duration, 3600), 60))
        seconds == IntOf(Mod(training_duration, 60))
    IN  Hms(hours, minutes, seconds)

\* whole seconds up to MaxSeconds, and around the hour, the day and 100 hours
WholeSeconds == 0..MaxSeconds \cup {3599, 3600, 3661, 86399, 86400, 359999, 360000, 363661}
Durations == { 1000 * w + f : w \in WholeSeconds, f \in {0, 1, 500, 999} }

NotRendered == [hh |-> <<>>, mm |-> <<>>, ss |-> <<>>]

DurationInit ==
    /\ b2n = NoLedgerFile
    /\ fs = NoFewShotFile
    /\ clock = 1
    /\ calls = 0
    /\ last = NoCall
    /\ evalSum = [k \in Keys |-> 0]
    /\ log = NoFile
    /\ pc = "idle"
    /\ plOut = NoMetrics
    /\ psOut = <<>>
    /\ wr = WriterIdle
    /\ alt = NoArrivals
    /\ agg = NoAggregation
    /\ dur \in { [phase |-> "measured", s |-> s, analysis |-> NotRendered,
                  training |-> NotRendered] : s \in Durations }

\* train.py: the run ends and save_training_results formats its duration
SaveTrainingResults ==
    /\ dur.phase = "measured"
    /\ dur.training = NotRendered
    /\ dur' = [dur EXCEPT !.training = formatted_duration(dur.s)]
    /\ UNCHANGED <<b2n, fs, clock, calls, last, evalSum, log, pc, plOut, psOut, wr, alt, agg>>

\* analyze_training_times.py: seconds_to_hms of the same duration
SecondsToHms ==
    /\ dur.phase = "measured"
    /\ dur.analysis = NotRendered
    /\ dur' = [dur EXCEPT !.analysis = seconds_to_hms(dur.s)]
    /\ UNCHANGED <<b2n, fs, clock, calls, last, evalSum, log, pc, plOut, psOut, wr, alt, agg>>

NextDuration == SaveTrainingResults \/ SecondsToHms

SpecDuration == DurationInit /\ [][NextDuration]_vars

\* the number a digit string spells
RECURSIVE Value(_)
Value(digits) ==
    IF digits = <<>> THEN 0 ELSE 10 * Value(SubSeq(digits, 1, Len(digits) - 1)) + digits[Len(digits)]

\* a unit is padded with zeros to two digits and no further
Padded(digits) == Len(digits) >= 2 /\ (Len(digits) > 2 => digits[1] # 0)

Truncated(hms, s) ==
    /\ Value(hms.hh) * 3600 + Value(hms.mm) * 60 + Value(hms.ss) = s \div 1000
    /\ Value(hms.mm) \in 0..59
    /\ Value(hms.ss) \in 0..59
    /\ Padded(hms.hh) /\ Padded(hms.mm) /\ Padded(hms.ss)

\* C19: for a non-negative duration s, the HH:MM:SS of seconds_to_hms and
\* of save_training_results each spell floor(s) seconds with minutes and
\* seconds below 60, every unit padded to at least two digits, and the two
\* renderings of one duration are the same string.
C19_HmsTruncates ==
    dur.phase = "measured" =>
        /\ dur.analysis # NotRendered => Truncated(dur.analysis, dur.s)
        /\ dur.training # NotRendered => Truncated(dur.training, dur.s)
        /\ dur.analysis # NotRendered /\ dur.training # NotRendered
               => dur.analysis = dur.training

\* 101:01:01.999 rendered by both, the hours on three digits
C19_Witness ==
    /\ dur.phase = "measured"
    /\ dur.s = 363661999
    /\ dur.analysis = [hh |-> <<1, 0, 1>>, mm |-> <<0, 1>>, ss |-> <<0, 1>>]
    /\ dur.training = dur.analysis

----------------------------------------------------------------------------
(* The two phases of one key arriving in either order: the base ingest     *)
(* and the new ingest of one (model, dataset, shot, seed), applied to an   *)
(* absent table base first, and to another absent table new first.         *)

Arrived(phase, base, new, baseFirst, newFirst) ==
    [phase |-> phase, calls |-> <<base, new>>, baseFirst |-> baseFirst, newFirst |-> newFirst]

\* the first call of each order
ArriveFirst ==
    /\ alt.phase = "idle"
    /\ \E m \in Models, id \in Identities, tb \in EvalTimes, tn \in EvalTimes,
          pb \in Provenance, pn \in Provenance, mb \in DirectMetrics, mn \in DirectMetrics :
           LET base == [args |-> Args(m, id, tb, pb, "base"), metrics |-> mb]
               new == [args |-> Args(m, id, tn, pn, "new"), metrics |-> mn]
           IN  alt' = Arrived("first", base, new,
                              log_base2new_result(NoLedgerFile, base.args, base.metrics, 1).file,
                              log_base2new_result(NoLedgerFile, new.args, new.metrics, 1).file)
    /\ UNCHANGED <<b2n, fs, clock, calls, last, evalSum, log, pc, plOut, psOut, wr, agg, dur>>

\* the other call of each order; a call that raises leaves its table as it was
ArriveSecond ==
    /\ alt.phase = "first"
    /\ LET base == alt.calls[1]
           new == alt.calls[2]
       IN  alt' = Arrived("both", base, new,
                          log_base2new_result(alt.baseFirst, new.args, new.metrics, 2).file,
                          log_base2new_result(alt.newFirst, base.args, base.metrics, 2).file)
    /\ UNCHANGED <<b2n, fs, clock, calls, last, evalSum, log, pc, plOut, psOut, wr, agg, dur>>

NextOrder == ArriveFirst \/ ArriveSecond

SpecOrder == Init /\ [][NextOrder]_vars

\* C20: once the base ingest and the new ingest of one key have both
\* been made on an empty table, the key's row holds the same base_acc,
\* new_acc, harmonic_mean and eval_time whichever of the two came first.
C20_ArrivalOrderIrrelevant ==
    alt.phase = "both" =>
        /\ Len(alt.baseFirst.rows) = 1
        /\ Len(alt.newFirst.rows) = 1
        /\ alt.baseFirst.rows[1].base_acc = alt.newFirst.rows[1].base_acc
        /\ alt.baseFirst.rows[1].new_acc = alt.newFirst.rows[1].new_acc
        /\ alt.baseFirst.rows[1].harmonic_mean = alt.newFirst.rows[1].harmonic_mean
        /\ alt.baseFirst.rows[1].eval_time = alt.newFirst.rows[1].eval_time

====
